---------------------------- MODULE Spec2Model ----------------------------
(***************************************************************************)
(* Model of the resQ disaster-reporting backend.                           *)
(*   variant A: src/backend/server.js   (report submission with three      *)
(*              prediction calls and the urgency classifier)               *)
(*   variant B: src/unnamed/part_000    (report submission with a status   *)
(*              column and the admin status update)                        *)
(*                                                                         *)
(* A text (a JavaScript string) is a sequence of symbols.  A symbol is one *)
(* of the characters the code treats specially (",", "\n", " ", a decimal  *)
(* digit) or an indivisible word ("status", "5 (Critical)") that holds no   *)
(* "," and no "\n" and neither starts nor ends with white space.           *)
(* The JavaScript value undefined is the one-symbol text UNDEF, whose      *)
(* symbol occurs in no real text.                                          *)
(***************************************************************************)
EXTENDS Integers, Sequences, FiniteSets, TLC

VARIABLES
  csv,      \* content of the file reports.csv (a text)
  users,    \* the in-memory array users
  res,      \* the response sent last, with the request it answers
  issued,   \* the report submissions answered 200, in order: id and body
  pc,       \* variant A, per slot: the await the report submission is suspended at
  req,      \* variant A, per slot: req.body and req.file of the submission
  loc,      \* variant A, per slot: the handler's constants set so far
  reply,    \* variant A, per slot: the prediction service's answer to the pending call
  calls,    \* variant A, per slot: the prediction calls the submission has issued
  urg       \* the urgency classifier's arguments and result

vars == <<csv, users, res, issued, pc, req, loc, reply, calls, urg>>

---------------------------------------------------------------------------
(* JavaScript values and string operations                                 *)

UNDEF == <<"<undefined>">>

COMMA == ","

NL == "\n"

WhiteSpace == {" ", "\n"}

Digits == <<"0", "1", "2", "3", "4", "5", "6", "7", "8", "9">>

IsDigit(c) == \E d \in 1..10 : Digits[d] = c

DigitValue(c) == (CHOOSE d \in 1..10 : Digits[d] = c) - 1

\* a JavaScript number: an integer or NaN
Num(n) == [nan |-> FALSE, val |-> n]

NaN == [nan |-> TRUE, val |-> 0]

\* String(x) as a template literal `${x}` renders it
ToStr(x) == IF x = UNDEF THEN <<"undefined">> ELSE x

\* String(n) of a non-negative integer
RECURSIVE NumStr(_)
NumStr(n) ==
  IF n < 10 THEN <<Digits[n + 1]>>
  ELSE NumStr(n \div 10) \o <<Digits[(n % 10) + 1]>>

\* the text without its leading white space
RECURSIVE TrimStart(_)
TrimStart(s) ==
  IF s # <<>> /\ Head(s) \in WhiteSpace THEN TrimStart(Tail(s)) ELSE s

\* the text without its trailing white space
RECURSIVE TrimEnd(_)
TrimEnd(s) ==
  IF s # <<>> /\ s[Len(s)] \in WhiteSpace THEN TrimEnd(SubSeq(s, 1, Len(s) - 1))
  ELSE s

\* String.prototype.trim
Trim(s) == TrimEnd(TrimStart(s))

\* the pieces of SubSeq(s, i, Len(s)) between the separators d, the first of
\* which starts at from <= i
RECURSIVE SplitFrom(_, _, _, _)
SplitFrom(s, d, from, i) ==
  IF i > Len(s) THEN <<SubSeq(s, from, Len(s))>>
  ELSE IF s[i] = d
       THEN <<SubSeq(s, from, i - 1)>> \o SplitFrom(s, d, i + 1, i + 1)
       ELSE SplitFrom(s, d, from, i + 1)

\* String.prototype.split(d) for a one-character separator d
Split(s, d) == SplitFrom(s, d, 1, 1)

\* Array.prototype.join(d): undefined elements and holes render as ""
RECURSIVE Join(_, _)
Join(parts, d) ==
  IF parts = <<>> THEN <<>>
  ELSE LET h == IF Head(parts) = UNDEF THEN <<>> ELSE Head(parts)
       IN  IF Len(parts) = 1 THEN h
           ELSE h \o <<d>> \o Join(Tail(parts), d)

\* the value of a text of decimal digits
RECURSIVE DigitsValue(_)
DigitsValue(s) ==
  IF s = <<>> THEN 0
  ELSE 10 * DigitsValue(SubSeq(s, 1, Len(s) - 1)) + DigitValue(s[Len(s)])

\* Number(x): white space is stripped, "" is 0, anything but digits is NaN
Number(x) ==
  IF x = UNDEF THEN NaN
  ELSE LET t == Trim(x)
       IN  IF \A i \in 1..Len(t) : IsDigit(t[i]) THEN Num(DigitsValue(t))
           ELSE NaN

\* parseFloat(x): leading white space is skipped, then the longest run of digits
ParseFloat(x) ==
  LET s == ToStr(x)
      lead == {i \in 1..Len(s) : \A j \in 1..i : s[j] \in WhiteSpace}
      from == Cardinality(lead) + 1
      run == {i \in from..Len(s) : \A j \in from..i : IsDigit(s[j])}
  IN  IF run = {} THEN NaN
      ELSE Num(DigitsValue(SubSeq(s, from, from + Cardinality(run) - 1)))

\* String.prototype.startsWith
StartsWith(s, p) == Len(s) >= Len(p) /\ SubSeq(s, 1, Len(p)) = p

\* arr[i] of a JavaScript array (0-based index i): undefined past the end
At(arr, i) == IF i + 1 <= Len(arr) THEN arr[i + 1] ELSE UNDEF

\* arr[i] = v of a JavaScript array (0-based index i): a gap is left as holes
SetAt(arr, i, v) ==
  [k \in 1..(IF Len(arr) > i + 1 THEN Len(arr) ELSE i + 1) |->
     IF k = i + 1 THEN v ELSE IF k <= Len(arr) THEN arr[k] ELSE UNDEF]

\* csvData.trim().split("\n")
Lines(data) == Split(Trim(data), NL)


---------------------------------------------------------------------------
(* Bounds of the model and the inputs the requests are drawn from          *)

\* report submissions of variant A that can be in flight at the same time
NumSlots == 2

\* report submissions with an image that are handled
MaxReports == 2

\* a status with a line break is handled only while the store holds fewer lines
MaxLines == 4

Slots == 1..NumSlots

NoReq == [op |-> "none"]

NoRes == [req |-> NoReq, status |-> 0]

NoLoc == [reportId |-> 0, severity |-> UNDEF, humanitarian |-> UNDEF]

NoReply == [kind |-> "none"]

\* req.file.filename and the form fields of POST /user/report/
ReportBodies ==
  { [image |-> <<"f.png">>, latitude |-> <<"1", "2">>, longitude |-> <<"7">>,
     location |-> <<"MG", " ", "Road">>, description |-> <<"Flood">>],
    [image |-> <<"f.png">>, latitude |-> <<"1", "2">>, longitude |-> <<"7">>,
     location |-> <<"MG", " ", "Road">>, description |-> <<"Flood", COMMA, "help">>],
    [image |-> <<"f.png">>, latitude |-> <<"1", "2">>, longitude |-> <<"7">>,
     location |-> <<"MG", " ", "Road">>, description |-> <<"Flood", NL, "1">>],
    [image |-> UNDEF, latitude |-> <<"1", "2">>, longitude |-> <<"7">>,
     location |-> <<"MG", " ", "Road">>, description |-> <<"Flood">>],
    [image |-> <<"f.png">>, latitude |-> <<"1", "2">>, longitude |-> <<"7">>,
     location |-> <<"MG", " ", "Road">>, description |-> UNDEF] }

\* req.params.report_id of PUT /admin/report/:report_id/status
ReportIds == {<<"1">>, <<"2">>, <<"9">>}

\* req.body.status of PUT /admin/report/:report_id/status
StatusValues == {<<"resolved">>, <<"ok", " ">>, <<"a", NL, "b">>}

HEADER_A ==
  <<"id", COMMA, "image_filename", COMMA, "latitude", COMMA, "longitude", COMMA,
    "location", COMMA, "description", COMMA, "severity", COMMA, "humanitarian",
    COMMA, "disaster_or_not", COMMA, "urgency_level", NL>>

HEADER_B ==
  <<"id", COMMA, "image_filename", COMMA, "latitude", COMMA, "longitude", COMMA,
    "location", COMMA, "description", COMMA, "status", NL>>

---------------------------------------------------------------------------
(* Handlers shared by the two variants.  A handler without an await runs   *)
(* to completion in one step: the request is taken and answered at once.   *)

\* res.status(status).json(body) answering request
Respond(request, status, body) ==
  res' = [req |-> request, status |-> status, body |-> body]

\* the report submissions of variant A that are suspended at an await
InFlight == Cardinality({r \in Slots : pc[r] # "idle"})

\* the object GET /user/reports/ builds for one row
ReportOf(headers, row) ==
  [h \in {headers[k] : k \in 1..Len(headers)} |->
     LET k == CHOOSE i \in 1..Len(headers) :
                 headers[i] = h /\ \A j \in 1..Len(headers) : headers[j] = h => j <= i
     IN  IF h \in {<<"latitude">>, <<"longitude">>, <<"id">>}
         THEN Number(At(row, k - 1))
         ELSE At(row, k - 1)]

\* the array GET /user/reports/ answers with
ReadReports(data) ==
  LET lines == Lines(data)
      headers == Split(lines[1], COMMA)
  IN  [i \in 1..(Len(lines) - 1) |-> ReportOf(headers, Split(lines[i + 1], COMMA))]

\* app.get("/user/reports/")
GetUserReports ==
  /\ Respond([op |-> "reports"], 200, ReadReports(csv))
  /\ UNCHANGED <<csv, users, issued, pc, req, loc, reply, calls, urg>>

---------------------------------------------------------------------------
(* Variant B: src/unnamed/part_000                                         *)

\* const reportId = lines.length
NextReportId(data) == Len(Lines(data))

NewRowB(reportId, b) ==
  NumStr(reportId) \o <<COMMA>> \o ToStr(b.image) \o <<COMMA>>
    \o ToStr(b.latitude) \o <<COMMA>> \o ToStr(b.longitude) \o <<COMMA>>
    \o ToStr(b.location) \o <<COMMA>> \o ToStr(b.description) \o <<COMMA>>
    \o <<"not_resolved", NL>>

\* the handler of POST /user/report/ in variant B on the request body b, from
\* the image check on; reportId is what it reads from the store
ReportB(b, reportId) ==
  IF b.image = UNDEF
  THEN /\ Respond([op |-> "report", body |-> b], 400,
            [message |-> "Image file is required."])
       /\ UNCHANGED <<csv, issued>>
  ELSE /\ Len(issued) < MaxReports
       /\ csv' = csv \o NewRowB(reportId, b)
       /\ issued' = Append(issued, [id |-> reportId, body |-> b])
       /\ Respond([op |-> "report", body |-> b], 200,
            [id |-> Num(reportId), image_filename |-> b.image,
             latitude |-> ParseFloat(b.latitude),
             longitude |-> ParseFloat(b.longitude),
             location |-> b.location, description |-> b.description,
             status |-> <<"not_resolved">>])

\* app.post("/user/report/") of variant B
PostUserReportB ==
  /\ \E b \in ReportBodies : ReportB(b, NextReportId(csv))
  /\ UNCHANGED <<users, pc, req, loc, reply, calls, urg>>

\* the callback of lines.map(...) in the status update, for lines[index]
UpdatedLine(line, index, reportId, status) ==
  IF index = 0 THEN line
  ELSE LET row == Split(line, COMMA)
       IN  IF row[1] = reportId THEN Join(SetAt(row, 6, status), COMMA)
           ELSE line

\* lines.map(...) of the status update, from the 0-based index on
RECURSIVE UpdatedFrom(_, _, _, _)
UpdatedFrom(lines, index, reportId, status) ==
  IF index >= Len(lines) THEN <<>>
  ELSE <<UpdatedLine(lines[index + 1], index, reportId, status)>>
         \o UpdatedFrom(lines, index + 1, reportId, status)

\* UpdatedLines with the header left out of the rewrite: lines.slice(1).map(...)
UpdatedLines_NoHeader(lines, reportId, status) ==
  Tail(UpdatedFrom(lines, 0, reportId, status))

UpdatedLines(lines, reportId, status) == UpdatedFrom(lines, 0, reportId, status)

\* reportFound after lines.map(...)
ReportFound(lines, reportId) ==
  \E i \in 2..Len(lines) : Split(lines[i], COMMA)[1] = reportId

\* updatedLines.find((line) => line.startsWith(reportId + ","))
RECURSIVE FindUpdated(_, _)
FindUpdated(updatedLines, reportId) ==
  IF updatedLines = <<>> THEN UNDEF
  ELSE IF StartsWith(Head(updatedLines), reportId \o <<COMMA>>)
       THEN Head(updatedLines)
       ELSE FindUpdated(Tail(updatedLines), reportId)

\* res.json({...}) of the status update, row = updatedReport.split(",")
UpdatedJson(row) ==
  [id |-> Number(At(row, 0)), image_filename |-> At(row, 1),
   latitude |-> Number(At(row, 2)), longitude |-> Number(At(row, 3)),
   location |-> At(row, 4), description |-> At(row, 5), status |-> At(row, 6)]

\* the status update from the write of the store on
WriteUpdated(request, updatedLines, updatedReport) ==
  /\ csv' = Join(updatedLines, NL) \o <<NL>>
  /\ IF updatedReport = UNDEF
     THEN Respond(request, 500, [message |-> "Failed to update report status."])
     ELSE Respond(request, 200, UpdatedJson(Split(updatedReport, COMMA)))

\* the status update on the lines read from the store
UpdateStatus(lines, reportId, status, updatedLines) ==
  /\ (NL \in {status[i] : i \in 1..Len(status)}) => Len(lines) < MaxLines
  /\ IF ~ReportFound(lines, reportId)
     THEN /\ Respond([op |-> "status", report_id |-> reportId, status |-> status],
               404, [message |-> "Report not found."])
          /\ UNCHANGED csv
     ELSE WriteUpdated([op |-> "status", report_id |-> reportId, status |-> status],
            updatedLines, FindUpdated(updatedLines, reportId))

\* the status updates on the lines read from the store
UpdateStatusOf(lines) ==
  \E reportId \in ReportIds, status \in StatusValues :
    UpdateStatus(lines, reportId, status, UpdatedLines(lines, reportId, status))

\* app.put("/admin/report/:report_id/status")
PutAdminReportStatus ==
  /\ UpdateStatusOf(Lines(csv))
  /\ UNCHANGED <<users, issued, pc, req, loc, reply, calls, urg>>

\* the state once the module has been loaded, the store created with header
InitStore(header) ==
  /\ csv = header
  /\ users = <<>>
  /\ res = NoRes
  /\ issued = <<>>
  /\ pc = [r \in Slots |-> "idle"]
  /\ req = [r \in Slots |-> NoReq]
  /\ loc = [r \in Slots |-> NoLoc]
  /\ reply = [r \in Slots |-> NoReply]
  /\ calls = [r \in Slots |-> <<>>]
  /\ urg = [humanitarian |-> UNDEF, severity |-> UNDEF, level |-> <<"idle">>]

InitB == InitStore(HEADER_B)

NextB ==
  \/ PostUserReportB
  \/ GetUserReports
  \/ PutAdminReportStatus

SpecB == InitB /\ [][NextB]_vars

---------------------------------------------------------------------------
(* Variant A: src/backend/server.js                                        *)

\* the labels the prediction service answers the three models with; UNDEF is
\* an answer without the field predicted_label
DamageLabels == {<<"severe">>}

HumanitarianLabels == {<<"not_humanitarian">>}

TextLabels == {<<"disaster">>}

PredictionModels == <<"damage", "humanitarian", "text">>

\* the bodies variant A is run with
ReportBodiesA ==
  {b \in ReportBodies : COMMA \notin {ToStr(b.description)[i] : i \in 1..Len(ToStr(b.description))}}

LabelsOf(model) ==
  CASE model = "damage" -> DamageLabels
    [] model = "humanitarian" -> HumanitarianLabels
    [] model = "text" -> TextLabels

\* getUrgencyLevel with the last branch testing severity === "mild" only
getUrgencyLevel_NoCollapse(humanitarian, severity) ==
  IF humanitarian = <<"affected_injured_or_dead_people">>
  THEN IF severity = <<"severe">> THEN <<"5 (Critical)">>
       ELSE IF severity = <<"mild">> THEN <<"4 (High)">>
       ELSE IF severity = <<"little_or_none">> THEN <<"3 (Moderate)">>
       ELSE <<"N/A">>
  ELSE IF humanitarian = <<"infrastructure_and_utility_damage">>
  THEN IF severity = <<"severe">> THEN <<"4 (High)">>
       ELSE IF severity = <<"mild">> THEN <<"3 (Moderate)">>
       ELSE IF severity = <<"little_or_none">> THEN <<"2 (Low)">>
       ELSE <<"N/A">>
  ELSE IF humanitarian = <<"rescue_volunteering_or_donation_effort">>
  THEN IF severity = <<"severe">> THEN <<"3 (Moderate)">>
       ELSE IF severity = <<"mild">> THEN <<"2 (Low)">>
       ELSE IF severity = <<"little_or_none">> THEN <<"1 (Minimal)">>
       ELSE <<"N/A">>
  ELSE IF humanitarian = <<"not_humanitarian">>
  THEN IF severity = <<"severe">> THEN <<"2 (Low)">>
       ELSE IF severity = <<"mild">> THEN <<"1 (Minimal)">>
       ELSE <<"N/A">>
  ELSE <<"N/A">>

getUrgencyLevel(humanitarian, severity) ==
  IF humanitarian = <<"affected_injured_or_dead_people">>
  THEN IF severity = <<"severe">> THEN <<"5 (Critical)">>
       ELSE IF severity = <<"mild">> THEN <<"4 (High)">>
       ELSE IF severity = <<"little_or_none">> THEN <<"3 (Moderate)">>
       ELSE <<"N/A">>
  ELSE IF humanitarian = <<"infrastructure_and_utility_damage">>
  THEN IF severity = <<"severe">> THEN <<"4 (High)">>
       ELSE IF severity = <<"mild">> THEN <<"3 (Moderate)">>
       ELSE IF severity = <<"little_or_none">> THEN <<"2 (Low)">>
       ELSE <<"N/A">>
  ELSE IF humanitarian = <<"rescue_volunteering_or_donation_effort">>
  THEN IF severity = <<"severe">> THEN <<"3 (Moderate)">>
       ELSE IF severity = <<"mild">> THEN <<"2 (Low)">>
       ELSE IF severity = <<"little_or_none">> THEN <<"1 (Minimal)">>
       ELSE <<"N/A">>
  ELSE IF humanitarian = <<"not_humanitarian">>
  THEN IF severity = <<"severe">> THEN <<"2 (Low)">>
       ELSE IF severity = <<"mild">> \/ severity = <<"little_or_none">>
            THEN <<"1 (Minimal)">>
       ELSE <<"N/A">>
  ELSE <<"N/A">>

NewRowA(reportId, b, severity, humanitarian, disaster, urgencyLevel) ==
  NumStr(reportId) \o <<COMMA>> \o ToStr(b.image) \o <<COMMA>>
    \o ToStr(b.latitude) \o <<COMMA>> \o ToStr(b.longitude) \o <<COMMA>>
    \o ToStr(b.location) \o <<COMMA>> \o ToStr(b.description) \o <<COMMA>>
    \o ToStr(severity) \o <<COMMA>> \o ToStr(humanitarian) \o <<COMMA>>
    \o ToStr(disaster) \o <<COMMA>> \o urgencyLevel \o <<NL>>

\* await axios.post(PREDICTION_URL, form, ...) is reached: the call is issued
\* and the handler is suspended
AwaitPrediction(r, model) ==
  /\ pc' = [pc EXCEPT ![r] = model]
  /\ calls' = [calls EXCEPT ![r] = Append(@, model)]
  /\ reply' = [reply EXCEPT ![r] = [kind |-> "pending"]]

\* the catch block of the report submission: the request in slot r ends
CatchReport(r) ==
  /\ Respond([op |-> "report", body |-> req[r]], 500,
       [message |-> "Failed to upload report."])
  /\ pc' = [pc EXCEPT ![r] = "idle"]
  /\ req' = [req EXCEPT ![r] = NoReq]
  /\ loc' = [loc EXCEPT ![r] = NoLoc]
  /\ reply' = [reply EXCEPT ![r] = NoReply]
  /\ calls' = [calls EXCEPT ![r] = <<>>]
  /\ UNCHANGED <<csv, users, issued, urg>>

\* app.post("/user/report/") of variant A up to its first await
PostUserReportA(r) ==
  /\ pc[r] = "idle"
  /\ \E b \in ReportBodiesA :
       IF b.image = UNDEF
       THEN /\ Respond([op |-> "report", body |-> b], 400,
                 [message |-> "Image file is required."])
            /\ UNCHANGED <<pc, req, loc, reply, calls>>
       ELSE /\ Len(issued) + InFlight < MaxReports
            /\ req' = [req EXCEPT ![r] = b]
            /\ loc' = [loc EXCEPT ![r] = [NoLoc EXCEPT !.reportId = NextReportId(csv)]]
            /\ calls' = [calls EXCEPT ![r] = <<"damage">>]
            /\ pc' = [pc EXCEPT ![r] = "damage"]
            /\ reply' = [reply EXCEPT ![r] = [kind |-> "pending"]]
            /\ UNCHANGED res
  /\ UNCHANGED <<csv, users, issued, urg>>

\* the prediction service answers the pending call of slot r, or the call fails
Predict(r) ==
  /\ pc[r] # "idle"
  /\ reply[r].kind = "pending"
  /\ \/ reply' = [reply EXCEPT ![r] = [kind |-> "error"]]
     \/ /\ (pc[r] = "text" => req[r].description # UNDEF)
        /\ \E label \in LabelsOf(pc[r]) :
             reply' = [reply EXCEPT ![r] = [kind |-> "ok", label |-> label]]
  /\ UNCHANGED <<csv, users, res, issued, pc, req, loc, calls, urg>>

\* AfterDamage with the failed call swallowed: the handler goes on without
\* a severity
AfterDamage_Swallow(r) ==
  /\ pc[r] = "damage"
  /\ reply[r].kind \in {"ok", "error"}
  /\ loc' = [loc EXCEPT ![r].severity =
               IF reply[r].kind = "ok" THEN reply[r].label ELSE UNDEF]
  /\ AwaitPrediction(r, "humanitarian")
  /\ UNCHANGED <<csv, users, res, issued, req, urg>>

\* the handler resumes after the damage prediction
AfterDamage(r) ==
  /\ pc[r] = "damage"
  /\ \/ /\ reply[r].kind = "error"
        /\ CatchReport(r)
     \/ /\ reply[r].kind = "ok"
        /\ loc' = [loc EXCEPT ![r].severity = reply[r].label]
        /\ AwaitPrediction(r, "humanitarian")
        /\ UNCHANGED <<csv, users, res, issued, req, urg>>

\* the handler resumes after the humanitarian prediction; textForm.append
\* throws on a description that is undefined, or the call is sent and fails
AfterHumanitarian(r) ==
  /\ pc[r] = "humanitarian"
  /\ \/ /\ reply[r].kind = "error"
        /\ CatchReport(r)
     \/ /\ reply[r].kind = "ok"
        /\ req[r].description = UNDEF
        /\ CatchReport(r)
     \/ /\ reply[r].kind = "ok"
        /\ loc' = [loc EXCEPT ![r].humanitarian = reply[r].label]
        /\ AwaitPrediction(r, "text")
        /\ UNCHANGED <<csv, users, res, issued, req, urg>>

\* the report submission from the urgency level on: the row is appended with
\* the id reportId and the request is answered
AppendReportA(r, reportId, b, disaster, urgencyLevel) ==
  /\ csv' = csv \o NewRowA(reportId, b, loc[r].severity, loc[r].humanitarian,
                           disaster, urgencyLevel)
  /\ issued' = Append(issued, [id |-> reportId, body |-> b])
  /\ Respond([op |-> "report", body |-> b], 200,
       [id |-> Num(reportId), image_filename |-> b.image,
        latitude |-> ParseFloat(b.latitude), longitude |-> ParseFloat(b.longitude),
        location |-> b.location, description |-> b.description,
        severity |-> loc[r].severity, humanitarian |-> loc[r].humanitarian,
        disaster_or_not |-> disaster, urgency_level |-> urgencyLevel])
  /\ pc' = [pc EXCEPT ![r] = "idle"]
  /\ req' = [req EXCEPT ![r] = NoReq]
  /\ loc' = [loc EXCEPT ![r] = NoLoc]
  /\ reply' = [reply EXCEPT ![r] = NoReply]
  /\ calls' = [calls EXCEPT ![r] = <<>>]
  /\ UNCHANGED <<users, urg>>

\* RowId with the lines counted again when the row is written
RowId_Reread(r) == NextReportId(csv)

\* the id the row is written with: const reportId, set before the first await
RowId(r) == loc[r].reportId

\* the handler resumes after the text prediction
AfterText(r) ==
  /\ pc[r] = "text"
  /\ \/ /\ reply[r].kind = "error"
        /\ CatchReport(r)
     \/ /\ reply[r].kind = "ok"
        /\ AppendReportA(r, RowId(r), req[r], reply[r].label,
             getUrgencyLevel(loc[r].humanitarian, loc[r].severity))

InitA == InitStore(HEADER_A)

NextA ==
  \/ \E r \in Slots :
       \/ PostUserReportA(r)
       \/ Predict(r)
       \/ AfterDamage(r)
       \/ AfterHumanitarian(r)
       \/ AfterText(r)
  \/ GetUserReports

SpecA == InitA /\ [][NextA]_vars

---------------------------------------------------------------------------
(* The urgency classifier on its own                                       *)

\* the labels getUrgencyLevel is applied to: the seven it names, and as
\* unknown ones another spelling, another word, the empty text and undefined
UrgencyInputs ==
  { <<"affected_injured_or_dead_people">>, <<"infrastructure_and_utility_damage">>,
    <<"rescue_volunteering_or_donation_effort">>, <<"not_humanitarian">>,
    <<"severe">>, <<"mild">>, <<"little_or_none">>,
    <<"Severe">>, <<"unknown">>, <<>>, UNDEF }

InitUrgency ==
  /\ csv = HEADER_A
  /\ users = <<>>
  /\ res = NoRes
  /\ issued = <<>>
  /\ pc = [r \in Slots |-> "idle"]
  /\ req = [r \in Slots |-> NoReq]
  /\ loc = [r \in Slots |-> NoLoc]
  /\ reply = [r \in Slots |-> NoReply]
  /\ calls = [r \in Slots |-> <<>>]
  /\ \E h \in UrgencyInputs, s \in UrgencyInputs :
       urg = [humanitarian |-> h, severity |-> s, level |-> <<"pending">>]

\* const urgencyLevel = getUrgencyLevel(humanitarianPrediction, severityPrediction)
Classify ==
  /\ urg.level = <<"pending">>
  /\ urg' = [urg EXCEPT !.level = getUrgencyLevel(urg.humanitarian, urg.severity)]
  /\ UNCHANGED <<csv, users, res, issued, pc, req, loc, reply, calls>>

NextUrgency == Classify

SpecUrgency == InitUrgency /\ [][NextUrgency]_vars

---------------------------------------------------------------------------
(* The in-memory user directory (the same code in both variants)           *)

MobileNumbers == {<<"9800000001">>, <<"9800000002">>, UNDEF}

Names == {<<"Asha">>, <<"Bal">>}

Emails == {<<"a@example.org">>}

\* UNDEF: a body without the field password
Passwords == {<<"secret">>, UNDEF}

Mpins == {<<"1234">>, <<"0000">>}

\* req.body of POST /signup
SignupBodies ==
  [mobile_number : MobileNumbers, name : Names, email : Emails,
   password : Passwords, mpin : Mpins]

\* req.body of POST /login
LoginBodies == [mobile_number : MobileNumbers, mpin : Mpins]

\* crypto.createHash("sha256").update(password).digest("hex"): a text that is
\* determined by the password and is not the password
hashPassword(password) == <<"sha256">> \o password

\* UserExists comparing the wrong field
UserExists_ByName(list, mobile_number) ==
  \E i \in 1..Len(list) : list[i].name = mobile_number

\* users.find((user) => user.mobile_number === mobile_number) finds a user
UserExists(list, mobile_number) ==
  \E i \in 1..Len(list) : list[i].mobile_number = mobile_number

\* users.find((u) => u.mobile_number === mobile_number): the first such user
FindUser(list, mobile_number) ==
  list[CHOOSE i \in 1..Len(list) :
         /\ list[i].mobile_number = mobile_number
         /\ \A j \in 1..(i - 1) : list[j].mobile_number # mobile_number]

\* app.post("/signup")
PostSignup ==
  /\ \E b \in SignupBodies :
       IF UserExists(users, b.mobile_number)
       THEN /\ Respond([op |-> "signup", body |-> b], 400,
                 [message |-> "Mobile number already exists."])
            /\ UNCHANGED users
       ELSE IF b.password = UNDEF
       THEN /\ Respond([op |-> "signup", body |-> b], 500,
                 [message |-> "Failed to sign up user."])
            /\ UNCHANGED users
       ELSE LET newUser == [mobile_number |-> b.mobile_number, name |-> b.name,
                            email |-> b.email,
                            password_hash |-> hashPassword(b.password),
                            mpin |-> b.mpin, wallet_amount |-> 0]
            IN  /\ users' = Append(users, newUser)
                /\ Respond([op |-> "signup", body |-> b], 200,
                     [message |-> "User created successfully", user |-> newUser])
  /\ UNCHANGED <<csv, issued, pc, req, loc, reply, calls, urg>>

\* the (mobile_number, name) pairs of list from the 1-based index i on, without
\* the users whose number is mobile_number: users.filter(...).map(...)
RECURSIVE ContactsFrom(_, _, _)
ContactsFrom(list, mobile_number, i) ==
  IF i > Len(list) THEN <<>>
  ELSE IF list[i].mobile_number # mobile_number
       THEN <<[mobile_number |-> list[i].mobile_number, name |-> list[i].name]>>
              \o ContactsFrom(list, mobile_number, i + 1)
       ELSE ContactsFrom(list, mobile_number, i + 1)

\* LoginContacts without the filter
LoginContacts_All(list, mobile_number) == ContactsFrom(list, <<"nobody">>, 1)

\* const contacts = users.filter(...).map(...)
LoginContacts(list, mobile_number) == ContactsFrom(list, mobile_number, 1)

\* app.post("/login")
PostLogin ==
  /\ \E b \in LoginBodies :
       IF ~UserExists(users, b.mobile_number)
       THEN Respond([op |-> "login", body |-> b], 404, [message |-> "User not found."])
       ELSE IF FindUser(users, b.mobile_number).mpin # b.mpin
       THEN Respond([op |-> "login", body |-> b], 401, [message |-> "Invalid MPIN."])
       ELSE Respond([op |-> "login", body |-> b], 200,
              [message |-> "Login successful",
               user |-> [mobile_number |-> FindUser(users, b.mobile_number).mobile_number,
                         name |-> FindUser(users, b.mobile_number).name],
               contacts |-> LoginContacts(users, b.mobile_number)])
  /\ UNCHANGED <<csv, users, issued, pc, req, loc, reply, calls, urg>>

InitUsers == InitStore(HEADER_B)

NextUsers == PostSignup \/ PostLogin

SpecUsers == InitUsers /\ [][NextUsers]_vars

---------------------------------------------------------------------------
(* Properties of the report store, variant B                               *)

\* the first column of a line
FirstColumn(line) == Split(line, COMMA)[1]

\* the lines of a store whose first column is not id
RECURSIVE Unmatched(_, _)
Unmatched(lines, id) ==
  IF lines = <<>> THEN <<>>
  ELSE IF FirstColumn(Head(lines)) = id THEN Unmatched(Tail(lines), id)
       ELSE <<Head(lines)>> \o Unmatched(Tail(lines), id)

\* a is b with some elements left out
RECURSIVE IsSubseq(_, _)
IsSubseq(a, b) ==
  IF a = <<>> THEN TRUE
  ELSE IF b = <<>> THEN FALSE
       ELSE IF Head(a) = Head(b) THEN IsSubseq(Tail(a), Tail(b))
            ELSE IsSubseq(a, Tail(b))

DistinctIds(h) == \A j, k \in 1..Len(h) : j # k => h[j].id # h[k].id

\* C2 (as claimed): starting from a store that holds only the header, the
\* k-th report submission answered 200 gets id k, whatever status updates
\* come between the submissions.
C2_SequentialIds == \A k \in 1..Len(issued) : issued[k].id = k

C3Matched(old, new, m) ==
  \A j \in 1..Len(old) :
    IF j = m
    THEN /\ Len(Split(new[j], COMMA)) = Len(Split(old[j], COMMA))
         /\ \A c \in 1..Len(Split(old[j], COMMA)) :
              c # 7 => Split(new[j], COMMA)[c] = Split(old[j], COMMA)[c]
    ELSE new[j] = old[j]

C3Frame(old, new, id, response) ==
  IF \E i \in 2..Len(old) : FirstColumn(old[i]) = id
  THEN /\ response.status = 200
       /\ Len(new) = Len(old)
       /\ \E m \in 2..Len(old) : FirstColumn(old[m]) = id /\ C3Matched(old, new, m)
  ELSE response.status = 404 /\ new = old

\* C3 (as claimed): a status update with an id that equals the first column
\* of a stored row answers 200, keeps the number of rows and changes nothing
\* but the seventh (status) column of that one row; with an id that matches
\* no row it answers 404 and leaves the store as it is.
C3_StatusUpdateFrame ==
  [][res'.req.op = "status" =>
       C3Frame(Split(csv, NL), Split(csv', NL), res'.req.report_id, res')]_vars

C6Record(rec, id, b) ==
  /\ rec[<<"id">>] = Num(id)
  /\ rec[<<"image_filename">>] = b.image
  /\ rec[<<"latitude">>] = Number(b.latitude)
  /\ rec[<<"longitude">>] = Number(b.longitude)
  /\ rec[<<"location">>] = b.location
  /\ b.description # UNDEF => rec[<<"description">>] = b.description

\* C6 (as claimed): GET /user/reports/ answers with one record per report
\* written, and the k-th record holds the k-th written report's id,
\* image_filename, latitude, longitude, location and (when the client
\* supplied one) description, the first, third and fourth as numbers.
C6_RoundTrip ==
  (res.req.op = "reports" /\ res.status = 200) =>
    /\ Len(res.body) = Len(issued)
    /\ \A k \in 1..Len(issued) : C6Record(res.body[k], issued[k].id, issued[k].body)

C9Rows(old, new) ==
  /\ Len(new) >= Len(old)
  /\ \A i \in 1..Len(old) :
       \A c \in 0..(Len(Split(old[i], COMMA)) + Len(Split(new[i], COMMA))) :
         c # 6 => At(Split(new[i], COMMA), c) = At(Split(old[i], COMMA), c)

\* C9 (as claimed, variant B): no request makes the number of rows smaller or
\* changes a column other than the status column of a row the store holds,
\* and a submission without an image and a read leave the store as it is.
C9_OnlyStatusChanges ==
  [][/\ C9Rows(Lines(csv), Lines(csv'))
     /\ (res'.status = 400 \/ res'.req.op = "reports") => csv' = csv]_vars

C10Step(old, new, request) ==
  /\ Len(new) >= Len(old)
  /\ request.op = "report" => SubSeq(csv', 1, Len(csv)) = csv
  /\ request.op = "status" => IsSubseq(Unmatched(old, request.report_id), new)

\* C10: in variant B every handler reads and writes the store in one step, so
\* in every order in which submissions and status updates are handled the
\* ids handed out are pairwise distinct, a submission only appends to the
\* store, and a status update keeps, in order, every line whose first column
\* is not the id it was asked to update: no row and no earlier status update
\* is lost.
C10_AtomicHandlers ==
  [][/\ DistinctIds(issued')
     /\ C10Step(Lines(csv), Lines(csv'), res'.req)
     /\ issued' # issued =>
          FirstColumn(SubSeq(csv', Len(csv) + 1, Len(csv')))
            = NumStr(issued'[Len(issued')].id)]_vars

\* two submissions have been answered and a status update has succeeded on a
\* store that holds them both
C10_Witness ==
  /\ Len(issued) = 2
  /\ res.req.op = "status"
  /\ res.status = 200
  /\ Len(Lines(csv)) >= 3

---------------------------------------------------------------------------
(* Properties of the report submission, variant A                          *)

IsPrefix(a, b) == Len(a) <= Len(b) /\ SubSeq(b, 1, Len(a)) = a

C8_AllOrNothing ==
  [][/\ \A r \in Slots :
          /\ IsPrefix(calls'[r], PredictionModels)
          /\ (calls'[r] # calls[r] /\ calls'[r] # <<>>)
               => /\ Len(calls'[r]) = Len(calls[r]) + 1
                  /\ calls[r] # <<>> => reply[r].kind = "ok"
          /\ (reply[r].kind = "error" /\ pc'[r] # pc[r])
               => /\ res'.status = 500
                  /\ res'.body = [message |-> "Failed to upload report."]
                  /\ pc'[r] = "idle"
                  /\ calls'[r] = <<>>
                  /\ csv' = csv
          /\ reply[r].kind = "error" => reply'[r].kind \in {"error", "none"}
     /\ csv' # csv =>
          \E r \in Slots :
            /\ pc[r] = "text" /\ reply[r].kind = "ok" /\ calls[r] = PredictionModels
            /\ pc'[r] = "idle" /\ res'.status = 200
            /\ SubSeq(csv', 1, Len(csv)) = csv
            /\ Len(issued') = Len(issued) + 1]_vars

\* one submission has been stored after its three calls, and another has had
\* its first two calls answered and its third fail
C8_Witness ==
  /\ Len(issued) = 1
  /\ \E r \in Slots :
       pc[r] = "text" /\ reply[r].kind = "error" /\ calls[r] = PredictionModels

---------------------------------------------------------------------------
(* Properties of the urgency classifier                                    *)

C1Severities == <<<<"severe">>, <<"mild">>, <<"little_or_none">>>>

\* the table of the specification: a humanitarian category and its tier for
\* each of the three severities
C1Table ==
  << <<<<"affected_injured_or_dead_people">>,
       <<"5 (Critical)">>, <<"4 (High)">>, <<"3 (Moderate)">>>>,
     <<<<"infrastructure_and_utility_damage">>,
       <<"4 (High)">>, <<"3 (Moderate)">>, <<"2 (Low)">>>>,
     <<<<"rescue_volunteering_or_donation_effort">>,
       <<"3 (Moderate)">>, <<"2 (Low)">>, <<"1 (Minimal)">>>>,
     <<<<"not_humanitarian">>,
       <<"2 (Low)">>, <<"1 (Minimal)">>, <<"1 (Minimal)">>>> >>

C1Tier(humanitarian, severity) ==
  IF \E i \in 1..4, j \in 1..3 :
       C1Table[i][1] = humanitarian /\ C1Severities[j] = severity
  THEN LET i == CHOOSE i \in 1..4 : C1Table[i][1] = humanitarian
           j == CHOOSE j \in 1..3 : C1Severities[j] = severity
       IN  C1Table[i][j + 1]
  ELSE <<"N/A">>

\* C1: getUrgencyLevel answers each of the twelve pairs of the table with the
\* table's tier and every other pair with "N/A".
C1_UrgencyTable ==
  urg.level \notin {<<"pending">>, <<"idle">>}
    => urg.level = C1Tier(urg.humanitarian, urg.severity)

\* the pair that shares its tier with the one beside it has been classified
C1_Witness ==
  /\ urg.humanitarian = <<"not_humanitarian">>
  /\ urg.severity = <<"little_or_none">>
  /\ urg.level = <<"1 (Minimal)">>

---------------------------------------------------------------------------
(* Properties of the user directory                                        *)

UniqueMobileNumbers(list) ==
  \A i, j \in 1..Len(list) : i # j => list[i].mobile_number # list[j].mobile_number

C4Present(list, mobile_number) ==
  \E i \in 1..Len(list) : list[i].mobile_number = mobile_number

C4Created(b, response) ==
  /\ response.status = 200
  /\ Len(users') = Len(users) + 1
  /\ SubSeq(users', 1, Len(users)) = users
  /\ users'[Len(users')].mobile_number = b.mobile_number
  /\ users'[Len(users')].wallet_amount = 0
  /\ response.body.user = users'[Len(users')]

\* C4 (as claimed): no two users share a mobile_number; a signup with a
\* number not yet present succeeds and appends one record with wallet_amount
\* 0; a signup with a number already present answers 400 and changes nothing.
C4_SignupAlwaysSucceeds ==
  [][/\ UniqueMobileNumbers(users')
     /\ res'.req.op = "signup" =>
          IF C4Present(users, res'.req.body.mobile_number)
          THEN res'.status = 400 /\ users' = users
          ELSE C4Created(res'.req.body, res')]_vars

\* C4 (amended): as claimed when the body holds a password; a signup with a
\* number not yet present and no password answers 500 and changes nothing.
C4_Signup ==
  [][/\ UniqueMobileNumbers(users')
     /\ res'.req.op = "signup" =>
          IF C4Present(users, res'.req.body.mobile_number)
          THEN res'.status = 400 /\ users' = users
          ELSE IF res'.req.body.password = UNDEF
          THEN res'.status = 500 /\ users' = users
          ELSE C4Created(res'.req.body, res')]_vars

\* two users have signed up with wallet_amount 0, and a signup with a number
\* that neither of them has and no password has been answered 500
C4_Witness ==
  /\ res.req.op = "signup"
  /\ res.status = 500
  /\ Len(users) = 2
  /\ \A i \in 1..2 : users[i].wallet_amount = 0
  /\ ~C4Present(users, res.req.body.mobile_number)

\* the users but the one at position p, as (mobile_number, name) pairs
C5Others(list, p) ==
  [k \in 1..(Len(list) - 1) |->
     LET u == IF k < p THEN list[k] ELSE list[k + 1]
     IN  [mobile_number |-> u.mobile_number, name |-> u.name]]

C5Outcome(b, response) ==
  LET at == {i \in 1..Len(users) : users[i].mobile_number = b.mobile_number}
  IN  IF at = {} THEN response.status = 404
      ELSE /\ Cardinality(at) = 1
           /\ LET p == CHOOSE i \in at : TRUE
              IN  IF users[p].mpin # b.mpin THEN response.status = 401
                  ELSE /\ response.status = 200
                       /\ response.body.user =
                            [mobile_number |-> users[p].mobile_number,
                             name |-> users[p].name]
                       /\ response.body.contacts = C5Others(users, p)

\* C5: a login answers 404 when no user has the number, 401 when the user
\* with the number has another mpin, and else 200 with the caller's
\* (mobile_number, name) and the (mobile_number, name) of all other users in
\* signup order; it never changes the user list.
C5_Login ==
  [][res'.req.op = "login" => users' = users /\ C5Outcome(res'.req.body, res')]_vars

\* the third user to sign up has logged in and got the two others as contacts
C5_Witness ==
  /\ res.req.op = "login"
  /\ res.status = 200
  /\ Len(users) = 3
  /\ Len(res.body.contacts) = 2
  /\ res.body.user.mobile_number = users[3].mobile_number

=============================================================================
